---------------------------- MODULE Spec2Model ----------------------------
(***************************************************************************)
(* The CBA sizing calculator (Streamlit), v0.2 (src/CBA_calculator1.py)    *)
(* and v0.3 (src/cba_calculator.py): the formula pipeline of the           *)
(* Calculator tab, re-executed from the top on every widget change.        *)
(*                                                                         *)
(* Python floats are IEEE-754 binary64.  They are modelled bit for bit: a  *)
(* float is a record [m, e] of value m * 2^e with a 53-bit significand m   *)
(* (2^52 <= m < 2^53, or m = 0), and every operation rounds its exact      *)
(* result to nearest, ties to even.  TLC integers are 32 bits wide, so a   *)
(* significand is kept as a little-endian sequence of 14-bit limbs.        *)
(* Every value of the pipeline is a normal number far from overflow and    *)
(* underflow, and none is negative.                                        *)
(***************************************************************************)
EXTENDS Integers, Sequences, FiniteSets, TLC

(***************************************************************************)
(* Natural numbers of any size: little-endian limbs, no high zero limb.    *)
(***************************************************************************)
HalfBits == 5 + 2
Half == 2 ^ HalfBits
LimbBits == 2 * HalfBits
Limb == 2 ^ LimbBits

Min(a, b) == IF a < b THEN a ELSE b
Max(a, b) == IF a > b THEN a ELSE b

RECURSIVE Trim(_)
Trim(a) ==
    IF a = << >> THEN a
    ELSE IF a[Len(a)] = 0 THEN Trim(SubSeq(a, 1, Len(a) - 1))
    ELSE a

RECURSIVE IntToBig(_)
IntToBig(n) ==
    IF n = 0 THEN << >> ELSE << n % Limb >> \o IntToBig(n \div Limb)

RECURSIVE BigToIntFrom(_, _)
BigToIntFrom(a, i) ==
    IF i > Len(a) THEN 0 ELSE a[i] + Limb * BigToIntFrom(a, i + 1)

\* Only for values below 2^31.
BigToInt(a) == BigToIntFrom(a, 1)

LimbAt(a, i) == IF i >= 1 /\ i <= Len(a) THEN a[i] ELSE 0

\* The limbs of the number whose columns are s (each below 2^31 less a
\* carry), from column i on, c carried in.
RECURSIVE Carry(_, _, _)
Carry(s, i, c) ==
    IF i > Len(s) THEN IntToBig(c)
    ELSE << (s[i] + c) % Limb >> \o Carry(s, i + 1, (s[i] + c) \div Limb)

BAdd(a, b) ==
    Trim(Carry([i \in 1..Max(Len(a), Len(b)) |-> LimbAt(a, i) + LimbAt(b, i)], 1, 0))

\* a + 1
RECURSIVE BInc(_, _)
BInc(a, i) ==
    IF i > Len(a) THEN a \o << 1 >>
    ELSE IF a[i] = Limb - 1 THEN BInc([a EXCEPT ![i] = 0], i + 1)
    ELSE [a EXCEPT ![i] = a[i] + 1]

RECURSIVE Borrow(_, _, _, _)
Borrow(a, b, i, c) ==
    IF i > Len(a) THEN << >>
    ELSE IF a[i] - LimbAt(b, i) - c < 0
    THEN << a[i] - LimbAt(b, i) - c + Limb >> \o Borrow(a, b, i + 1, 1)
    ELSE << a[i] - LimbAt(b, i) - c >> \o Borrow(a, b, i + 1, 0)

\* a - b for a >= b.
BSub(a, b) == Trim(Borrow(a, b, 1, 0))

\* Column k of the schoolbook product: the sum of a[i] * b[k + 1 - i], at
\* most four products of 14-bit limbs for 53-bit operands.
RECURSIVE ColSum(_, _, _, _, _)
ColSum(a, b, k, i, last) ==
    IF i > last THEN 0
    ELSE a[i] * b[k + 1 - i] + ColSum(a, b, k, i + 1, last)

BMul(a, b) ==
    IF a = << >> \/ b = << >> THEN << >>
    ELSE Trim(Carry([k \in 1..(Len(a) + Len(b) - 1) |->
                       ColSum(a, b, k, Max(1, k + 1 - Len(b)), Min(Len(a), k))],
                    1, 0))

RECURSIVE BitsOf(_)
BitsOf(x) == IF x = 0 THEN 0 ELSE 1 + BitsOf(x \div 2)

BitLen(a) ==
    IF a = << >> THEN 0 ELSE (Len(a) - 1) * LimbBits + BitsOf(a[Len(a)])

\* Bit i of a, bit 0 the lowest.
Bit(a, i) == (LimbAt(a, i \div LimbBits + 1) \div (2 ^ (i % LimbBits))) % 2

\* floor(a / 2^s)
BShr(a, s) ==
    IF Len(a) <= s \div LimbBits THEN << >>
    ELSE Trim([j \in 1..(Len(a) - (s \div LimbBits)) |->
                 (a[j + (s \div LimbBits)] \div (2 ^ (s % LimbBits)))
                 + (LimbAt(a, j + (s \div LimbBits) + 1) % (2 ^ (s % LimbBits)))
                   * (2 ^ (LimbBits - (s % LimbBits)))])

\* a * 2^s
BShl(a, s) ==
    IF a = << >> THEN << >>
    ELSE Trim([j \in 1..(Len(a) + (s \div LimbBits) + 1) |->
                 ((LimbAt(a, j - (s \div LimbBits)) * (2 ^ (s % LimbBits))) % Limb)
                 + (LimbAt(a, j - (s \div LimbBits) - 1)
                    \div (2 ^ (LimbBits - (s % LimbBits))))])

\* a mod 2^s # 0
AnyLow(a, s) ==
    \/ \E j \in 1..(s \div LimbBits) : LimbAt(a, j) # 0
    \/ LimbAt(a, (s \div LimbBits) + 1) % (2 ^ (s % LimbBits)) # 0

RECURSIVE BLessFrom(_, _, _)
BLessFrom(a, b, i) ==
    IF i = 0 THEN FALSE
    ELSE IF a[i] # b[i] THEN a[i] < b[i]
    ELSE BLessFrom(a, b, i - 1)

BLess(a, b) ==
    IF Len(a) # Len(b) THEN Len(a) < Len(b) ELSE BLessFrom(a, b, Len(a))

\* Long division of a by a divisor d < 2^20, from the highest limb, half a
\* limb at a time (r * 2^7 stays below 2^31): [q, r] with a = q * d + r.
\* DivStep takes the high half of limb i, DivLow the low half, x1 and x2
\* the running dividends.
RECURSIVE DivStep(_, _, _, _, _)
DivLow(a, d, i, x1, x2, q) ==
    DivStep(a, d, i - 1, x2 % d, << (x1 \div d) * Half + (x2 \div d) >> \o q)

DivHigh(a, d, i, x1, q) ==
    DivLow(a, d, i, x1, (x1 % d) * Half + (a[i] % Half), q)

DivStep(a, d, i, r, q) ==
    IF i = 0 THEN [q |-> Trim(q), r |-> r]
    ELSE DivHigh(a, d, i, r * Half + (a[i] \div Half), q)

BDivSmall(a, d) == DivStep(a, d, Len(a), 0, << >>)

(***************************************************************************)
(* binary64                                                                *)
(***************************************************************************)
Precision == 50 + 3

Zero == [m |-> << >>, e |-> 0]

\* q, of 53 or 54 bits, as the significand of q * 2^e (54 bits: 2^53 after
\* a round up).
Renormalized(q, e) ==
    IF BitLen(q) > Precision THEN [m |-> BShr(q, 1), e |-> e + 1]
    ELSE [m |-> q, e |-> e]

\* n of bl bits, bl > 53: the low s = bl - 53 bits rounded away, up when
\* they are more than half, or half and the kept part odd.
RoundedAway(n, s) ==
    IF Bit(n, s - 1) = 1 /\ (Bit(n, s) = 1 \/ AnyLow(n, s - 1))
    THEN BInc(BShr(n, s), 1)
    ELSE BShr(n, s)

RoundBits(n, e, bl) ==
    IF bl = 0 THEN Zero
    ELSE IF bl <= Precision
    THEN [m |-> BShl(n, Precision - bl), e |-> e - (Precision - bl)]
    ELSE Renormalized(RoundedAway(n, bl - Precision), e + bl - Precision)

\* The float nearest to n * 2^e, ties to even (n a natural number).
Round(n, e) == RoundBits(n, e, BitLen(n))

\* float(n) of a Python int 0 <= n < 2^31: exact.
FromInt(n) == Round(IntToBig(n), 0)

FMul(x, y) == Round(BMul(x.m, y.m), x.e + y.e)

\* The lower of two exponents, a zero operand not counting.
MinExp(x, y) ==
    IF x.m = << >> THEN y.e
    ELSE IF y.m = << >> THEN x.e
    ELSE Min(x.e, y.e)

Aligned(x, e) == IF x.m = << >> THEN << >> ELSE BShl(x.m, x.e - e)

AddAt(x, y, e) == Round(BAdd(Aligned(x, e), Aligned(y, e)), e)

FAdd(x, y) == AddAt(x, y, MinExp(x, y))

SubAt(x, y, e) == Round(BSub(Aligned(x, e), Aligned(y, e)), e)

\* x - y for x >= y >= 0.
FSub(x, y) == SubAt(x, y, MinExp(x, y))

\* The quotient doubled, its last bit set when the division left a
\* remainder: enough for Round to round the exact quotient.
WithSticky(res) ==
    IF res.r = 0 THEN BShl(res.q, 1) ELSE BInc(BShl(res.q, 1), 1)

\* x / d for a divisor d that is an integer, 0 < d < 2^20 (float(d) is
\* exact): the exact quotient, rounded once.  The dividend is taken with
\* two limbs more, so that the quotient has 60 bits or more.
FDivInt(x, d) ==
    IF x.m = << >> THEN Zero
    ELSE Round(WithSticky(BDivSmall(<< 0, 0 >> \o x.m, d)),
               x.e - 2 * LimbBits - 1)

\* The float a decimal literal, or a decimal typed into a widget, denotes:
\* n / d rounded to nearest, as Python reads decimals.
Lit(n, d) == FDivInt(FromInt(n), d)

FLess(x, y) ==
    IF y.m = << >> THEN FALSE
    ELSE IF x.m = << >> THEN TRUE
    ELSE IF x.e # y.e THEN x.e < y.e
    ELSE BLess(x.m, y.m)

FLe(x, y) == x = y \/ FLess(x, y)

\* The next float above x > 0.
NextUp(x) == Renormalized(BInc(x.m, 1), x.e)

\* x rounded to the nearest integer (0 <= x < 2^31 - 1, halves upwards).
RoundToInt(x) ==
    IF x.m = << >> THEN 0
    ELSE IF x.e >= 0 THEN BigToInt(BShl(x.m, x.e))
    ELSE BigToInt(BShr(x.m, 0 - x.e)) + Bit(x.m, 0 - x.e - 1)

(***************************************************************************)
(* The two scripts.                                                        *)
(***************************************************************************)
V02 == "v0.2"
V03 == "v0.3"
Versions == {V02, V03}

PerKw == "Estimate CAPEX from cost per kW"
Direct == "Enter total CAPEX directly"

One == FromInt(1)

\* How many values of each widget the model tries, the widget's default
\* first.
MaxChoices == 2

Upto(order) ==
    {order[i] : i \in 1..(IF MaxChoices < Len(order) THEN MaxChoices ELSE Len(order))}

\* st.number_input("Battery Size (MW)", 10, 1000, 500, 10)
SizeChoices == Upto(<<500, 990, 10, 1000, 30>>)
\* st.number_input("CAPEX $/kW", 500, 2000, 1100, 50)
KwChoices == Upto(<<1100, 2000, 500, 1350, 1950>>)
\* st.number_input("Total CAPEX ($)", 1_000_000, 2_000_000_000, 670_000_000,
\* 1_000_000).  v0.2 passes the same four numbers as floats; the values
\* tried are whole dollars, which float holds exactly, so capex_total is
\* kept as an integer for both scripts and converted where a float
\* operation reads it.
TotalChoices == Upto(<<670000000, 1037000000, 1000000, 2000000000, 550000000>>)
\* st.number_input("Enter current Federal Funds Rate (%)", 0.0, 15.0, 5.25, 0.01)
FedChoices == Upto(<<Lit(525, 100), Lit(733, 100), Zero, Lit(1500, 100), Lit(1, 100)>>)
\* st.slider("Target Levered IRR (%)", 8.0, 20.0, 15.0, 0.5)
IrrChoices == Upto(<<Lit(150, 10), Lit(80, 10), Lit(200, 10), Lit(125, 10), Lit(95, 10)>>)
\* st.slider("Interest Rate on Debt (%)", 2.0, 10.0, 5.0, 0.5)
InterestChoices == Upto(<<Lit(50, 10), Lit(20, 10), Lit(100, 10), Lit(75, 10), Lit(95, 10)>>)

\* The widgets' value= arguments: what each returns on the first run, and
\* again when it is rendered after a run that did not render it.
DefaultWidgets(v) ==
    LET common == [input_mode |-> PerKw, size_mw |-> 500, capex_kw |-> 1100,
                   capex_total |-> 670000000, target_irr |-> Lit(150, 10),
                   ej_flag |-> TRUE, urban_flag |-> TRUE]
    IN  IF v = V03 THEN common @@ [fed_rate |-> Lit(525, 100)]
        ELSE common @@ [interest_rate |-> Lit(50, 10)]

(***************************************************************************)
(* The formula pipeline, as the scripts compute it.                        *)
(***************************************************************************)
\* Mutant: the product taken in both entry modes.
capex_total_from_size(w) == w.size_mw * 1000 * w.capex_kw

\* capex_total = size_mw * 1000 * capex_kw (Python ints), or the widget.
capex_total_of(w) ==
    IF w.input_mode = PerKw THEN w.size_mw * 1000 * w.capex_kw
    ELSE w.capex_total

\* Mutant: the division by size_mw alone, the factor 1000 forgotten.
capex_kw_per_mw(w) ==
    IF w.input_mode = PerKw THEN FromInt(w.capex_kw)
    ELSE FDivInt(FromInt(w.capex_total), w.size_mw)

\* capex_kw: the widget's int, or capex_total / (size_mw * 1000).
capex_kw_of(w) ==
    IF w.input_mode = PerKw THEN FromInt(w.capex_kw)
    ELSE FDivInt(FromInt(w.capex_total), w.size_mw * 1000)

\* Mutant: the two points entered as a fraction.
margin_as_fraction == Lit(2, 100)

margin == Lit(20, 10)

\* v0.3: fed_rate + margin.  v0.2: the slider named interest_rate.
interest_rate_pct_of(v, w) ==
    IF v = V03 THEN FAdd(w.fed_rate, margin) ELSE w.interest_rate

leverage == Lit(70, 100)

equity_share == FSub(One, leverage)

\* Mutant: the debt fraction applied to equity too.
equity_of_leverage(total) == FMul(FromInt(total), leverage)

equity_of(total) == FMul(FromInt(total), equity_share)

debt_of(total) == FMul(FromInt(total), leverage)

annual_profit_of(irr, eq, rate, dbt) ==
    FAdd(FMul(FDivInt(irr, 100), eq), FMul(FDivInt(rate, 100), dbt))

BaseLow03 == Lit(25, 10000)
BaseHigh03 == Lit(75, 10000)
BaseLow02 == Lit(4, 1000)
BaseHigh02 == Lit(14, 1000)

\* Mutant: a decimal place lost in the lower bound (2.5 % and 4 %).
BaseLowTypo03 == Lit(25, 1000)
BaseLowTypo02 == Lit(4, 100)
base_low_pct_typo(v) == IF v = V03 THEN BaseLowTypo03 ELSE BaseLowTypo02

base_low_pct(v) == IF v = V03 THEN BaseLow03 ELSE BaseLow02

base_high_pct(v) == IF v = V03 THEN BaseHigh03 ELSE BaseHigh02

Factor03 == Lit(115, 100)
Factor02 == Lit(15, 10)

\* Mutant: the adder applied as a 15 % discount.
Discount == Lit(85, 100)
ej_discount(v) == Discount

\* if ej_flag: pct_multiplier *= ...
ej_factor(v) == IF v = V03 THEN Factor03 ELSE Factor02

\* if urban_flag: pct_multiplier *= ...
urban_factor(v) == IF v = V03 THEN Factor03 ELSE Factor02

\* Mutant: the multiplier kept across runs (as session state would be).
pct_multiplier_carried(previous) == previous

\* pct_multiplier = 1.0 at the top of every run, whatever the run before
\* left in the variable.
pct_multiplier_start(previous) == One

AfterEj(v, w, m) == IF w.ej_flag THEN FMul(m, ej_factor(v)) ELSE m

AfterUrban(v, w, m) == IF w.urban_flag THEN FMul(m, urban_factor(v)) ELSE m

\* Mutant: the adders summed, 1 + (f - 1) + (f - 1), not compounded.
pct_multiplier_additive(v, w, previous) ==
    FAdd(IF w.ej_flag THEN ej_factor(v) ELSE One,
         IF w.urban_flag THEN FSub(urban_factor(v), One) ELSE Zero)

pct_multiplier_of(v, w, previous) ==
    AfterUrban(v, w, AfterEj(v, w, pct_multiplier_start(previous)))

project_life == 20

\* Mutant: the annual figure shown as the lifetime figure.
lifetime_unscaled(annual) == annual

lifetime_of(annual) == FMul(annual, FromInt(project_life))

(***************************************************************************)
(* State: the session's widget values, which outlive a run, and the        *)
(* script's variables as the last run left them.  first_run and revisited  *)
(* are history: the first run's results, and whether the widgets have      *)
(* been moved since.                                                       *)
(***************************************************************************)
VARIABLES version, widgets, size_mw, capex_total, capex_kw, interest_rate_pct,
          equity, debt, annual_profit, pct_multiplier, cba_low_pct,
          cba_high_pct, annual_cba_low, annual_cba_high, lifetime_cba_low,
          lifetime_cba_high, first_run, revisited

vars == <<version, widgets, size_mw, capex_total, capex_kw, interest_rate_pct,
          equity, debt, annual_profit, pct_multiplier, cba_low_pct,
          cba_high_pct, annual_cba_low, annual_cba_high, lifetime_cba_low,
          lifetime_cba_high, first_run, revisited>>

\* What the Results section shows.
Results ==
    [annual_profit |-> annual_profit,
     annual_cba_low |-> annual_cba_low, annual_cba_high |-> annual_cba_high,
     lifetime_cba_low |-> lifetime_cba_low,
     lifetime_cba_high |-> lifetime_cba_high]

\* The first run of the script, over the widgets' defaults.
Init ==
    /\ version \in Versions
    /\ widgets = DefaultWidgets(version)
    /\ size_mw = widgets.size_mw
    /\ capex_total = capex_total_of(widgets)
    /\ capex_kw = capex_kw_of(widgets)
    /\ interest_rate_pct = interest_rate_pct_of(version, widgets)
    /\ equity = equity_of(capex_total)
    /\ debt = debt_of(capex_total)
    /\ annual_profit =
           annual_profit_of(widgets.target_irr, equity, interest_rate_pct, debt)
    /\ pct_multiplier = pct_multiplier_of(version, widgets, One)
    /\ cba_low_pct = FMul(base_low_pct(version), pct_multiplier)
    /\ cba_high_pct = FMul(base_high_pct(version), pct_multiplier)
    /\ annual_cba_low = FMul(annual_profit, cba_low_pct)
    /\ annual_cba_high = FMul(annual_profit, cba_high_pct)
    /\ lifetime_cba_low = lifetime_of(annual_cba_low)
    /\ lifetime_cba_high = lifetime_of(annual_cba_high)
    /\ first_run = Results
    /\ revisited = FALSE

\* A widget change: the session keeps the new values w and the script runs
\* again from the top, statement by statement.
Rerun(w) ==
    /\ w # widgets
    /\ widgets' = w
    /\ size_mw' = w.size_mw
    /\ capex_total' = capex_total_of(w)
    /\ capex_kw' = capex_kw_of(w)
    /\ interest_rate_pct' = interest_rate_pct_of(version, w)
    /\ equity' = equity_of(capex_total')
    /\ debt' = debt_of(capex_total')
    /\ annual_profit' =
           annual_profit_of(w.target_irr, equity', interest_rate_pct', debt')
    /\ pct_multiplier' = pct_multiplier_of(version, w, pct_multiplier)
    /\ cba_low_pct' = FMul(base_low_pct(version), pct_multiplier')
    /\ cba_high_pct' = FMul(base_high_pct(version), pct_multiplier')
    /\ annual_cba_low' = FMul(annual_profit', cba_low_pct')
    /\ annual_cba_high' = FMul(annual_profit', cba_high_pct')
    /\ lifetime_cba_low' = lifetime_of(annual_cba_low')
    /\ lifetime_cba_high' = lifetime_of(annual_cba_high')
    /\ revisited' = TRUE
    /\ UNCHANGED <<version, first_run>>

\* The radio.  The CAPEX widget of the other branch is not rendered and the
\* session forgets it; the one now rendered starts from its value=.  The
\* size widget is the same call in both branches and keeps its value.
SetInputMode ==
    \E mode \in {PerKw, Direct} :
        Rerun([widgets EXCEPT !.input_mode = mode,
                              !.capex_kw = DefaultWidgets(version).capex_kw,
                              !.capex_total = DefaultWidgets(version).capex_total])

SetSizeMw ==
    \E size \in SizeChoices : Rerun([widgets EXCEPT !.size_mw = size])

SetCapexKw ==
    /\ widgets.input_mode = PerKw
    /\ \E kw \in KwChoices : Rerun([widgets EXCEPT !.capex_kw = kw])

SetCapexTotal ==
    /\ widgets.input_mode = Direct
    /\ \E total \in TotalChoices : Rerun([widgets EXCEPT !.capex_total = total])

SetFedRate ==
    /\ version = V03
    /\ \E rate \in FedChoices : Rerun([widgets EXCEPT !.fed_rate = rate])

SetInterestRate ==
    /\ version = V02
    /\ \E rate \in InterestChoices : Rerun([widgets EXCEPT !.interest_rate = rate])

SetTargetIrr ==
    \E irr \in IrrChoices : Rerun([widgets EXCEPT !.target_irr = irr])

ToggleEj == Rerun([widgets EXCEPT !.ej_flag = ~widgets.ej_flag])

ToggleUrban == Rerun([widgets EXCEPT !.urban_flag = ~widgets.urban_flag])

Next ==
    \/ SetInputMode
    \/ SetSizeMw
    \/ SetCapexKw
    \/ SetCapexTotal
    \/ SetFedRate
    \/ SetInterestRate
    \/ SetTargetIrr
    \/ ToggleEj
    \/ ToggleUrban

Spec == Init /\ [][Next]_vars

(***************************************************************************)
(* The claims.  Their expressions are evaluated as Python evaluates them,  *)
(* in binary64, with the decimals written out here rather than taken from  *)
(* the definitions above.                                                  *)
(***************************************************************************)
\* x and y are equal or adjacent floats (x, y > 0).
Near(x, y) == x = y \/ NextUp(x) = y \/ NextUp(y) = x

Dec030 == Lit(30, 100)
Dec070 == Lit(70, 100)
Dec115 == Lit(115, 100)
Dec150 == Lit(150, 100)
Dec225 == Lit(225, 100)
Dec13225 == Lit(13225, 10000)
Two == FromInt(2)
Twenty == FromInt(20)
OneLess070 == FSub(One, Dec070)

\* The rate the claim names: the slider in v0.2, fed funds + 2.0 in v0.3.
ClaimedRate ==
    IF version = V03 THEN FAdd(widgets.fed_rate, Two) ELSE widgets.interest_rate

\* annual_profit by the claimed formula over a given equity and debt.
ClaimedProfit(eq, dbt) ==
    FAdd(FMul(FDivInt(widgets.target_irr, 100), eq),
         FMul(FDivInt(ClaimedRate, 100), dbt))

\* C1, as stated: annualProfit = (targetIRR/100) * equity +
\* (interestRate/100) * debt with equity = 0.30 * capexTotal and debt =
\* 0.70 * capexTotal, the rate the slider (v0.2) or fedFundsRate + 2.0
\* (v0.3).
C1_ProfitOverLiteralShares ==
    /\ equity = FMul(Dec030, FromInt(capex_total))
    /\ debt = FMul(Dec070, FromInt(capex_total))
    /\ annual_profit = ClaimedProfit(FMul(Dec030, FromInt(capex_total)),
                                     FMul(Dec070, FromInt(capex_total)))

\* C1, amended: the same formula with equity = capexTotal * (1 - 0.70), the
\* factor being the float 0.30000000000000004 and not the literal 0.30.
C1_ProfitFormula ==
    /\ interest_rate_pct = ClaimedRate
    /\ equity = FMul(FromInt(capex_total), OneLess070)
    /\ OneLess070 = NextUp(Dec030)
    /\ debt = FMul(FromInt(capex_total), Dec070)
    /\ annual_profit = ClaimedProfit(equity, debt)

C1_Witness ==
    /\ version = V03
    /\ widgets.input_mode = Direct
    /\ widgets.fed_rate # Lit(525, 100)
    /\ widgets.target_irr # Lit(150, 10)
    /\ equity # FMul(Dec030, FromInt(capex_total))

\* size_mw * 1000 * capex_kw, as Python evaluates it.
ProductBack == FMul(FromInt(size_mw * 1000), capex_kw)

\* C2, as stated: after CAPEX resolution capexTotal == sizeMW * 1000 *
\* capexPerKW in both entry modes.
C2_ProductIsTotal == ProductBack = FromInt(capex_total)

\* C2, amended: in cost-per-kW mode capexTotal is that product exactly; in
\* total-CAPEX mode capexPerKW = capexTotal / (sizeMW * 1000), and
\* multiplied back it gives capexTotal or a float adjacent to it.
C2_ProductNearTotal ==
    /\ widgets.input_mode = PerKw =>
           /\ capex_total = size_mw * 1000 * widgets.capex_kw
           /\ ProductBack = FromInt(capex_total)
    /\ widgets.input_mode = Direct =>
           /\ capex_total = widgets.capex_total
           /\ capex_kw = FDivInt(FromInt(capex_total), size_mw * 1000)
           /\ Near(ProductBack, FromInt(capex_total))

C2_Witness ==
    /\ widgets.input_mode = Direct
    /\ size_mw = 990
    /\ capex_total = 1037000000
    /\ ProductBack = NextUp(FromInt(capex_total))

\* A step that leaves every widget but the two flags alone and turns no
\* flag off.
FlagsRaised ==
    /\ widgets' = [widgets EXCEPT !.ej_flag = widgets'.ej_flag,
                                  !.urban_flag = widgets'.urban_flag]
    /\ widgets.ej_flag => widgets'.ej_flag
    /\ widgets.urban_flag => widgets'.urban_flag

\* C3: enabling more flags never decreases the multiplier nor any of the
\* four CBA figures.  A run follows one widget change, so the flags go up
\* one at a time; <= on floats is transitive, which gives the pairs two
\* flags apart.
C3_FlagsNeverDecrease ==
    [][FlagsRaised =>
          /\ FLe(pct_multiplier, pct_multiplier')
          /\ FLe(annual_cba_low, annual_cba_low')
          /\ FLe(annual_cba_high, annual_cba_high')
          /\ FLe(lifetime_cba_low, lifetime_cba_low')
          /\ FLe(lifetime_cba_high, lifetime_cba_high')]_vars

C3_Witness ==
    /\ revisited
    /\ widgets.ej_flag
    /\ ~widgets.urban_flag
    /\ FLess(One, pct_multiplier)
    /\ FLess(annual_cba_low, first_run.annual_cba_low)

\* C4: the adjusted band never inverts, cbaLowPct <= cbaHighPct, whatever
\* the flags, in both versions.
C4_BandOrdered == FLe(cba_low_pct, cba_high_pct)

C4_Witness ==
    /\ version = V02
    /\ revisited
    /\ widgets.ej_flag
    /\ widgets.urban_flag
    /\ pct_multiplier = Dec225
    /\ FLess(cba_low_pct, cba_high_pct)

\* C5: lifetimeCBALow == annualCBALow * 20 and lifetimeCBAHigh ==
\* annualCBAHigh * 20, exactly.
C5_LifetimeIsTwentyYears ==
    /\ lifetime_cba_low = FMul(annual_cba_low, Twenty)
    /\ lifetime_cba_high = FMul(annual_cba_high, Twenty)

C5_Witness ==
    /\ revisited
    /\ lifetime_cba_low # annual_cba_low
    /\ RoundToInt(lifetime_cba_high) > 20

\* The scenario of the spec: v0.3, cost-per-kW mode, 500 MW, 1100 $/kW,
\* IRR 15 %, fed funds 5.25 %, both flags on.
Scenario ==
    /\ version = V03
    /\ widgets.input_mode = PerKw
    /\ widgets.size_mw = 500
    /\ widgets.capex_kw = 1100
    /\ widgets.target_irr = Lit(150, 10)
    /\ widgets.fed_rate = Lit(525, 100)
    /\ widgets.ej_flag
    /\ widgets.urban_flag

LowPctStated == Lit(529, 160000)
HighPctStated == Lit(1587, 160000)

\* C6, as stated: the scenario yields capexTotal 550,000,000, annualProfit
\* 52,662,500, cbaLowPct 0.00330625 (= 529/160000), cbaHighPct 0.00991875
\* (= 1587/160000) and, to the nearest dollar, 174,112 / 522,336 a year and
\* 3,482,234 / 10,446,702 over the lifetime.
C6_ScenarioAsStated ==
    Scenario =>
        /\ capex_total = 550000000
        /\ annual_profit = FromInt(52662500)
        /\ cba_low_pct = LowPctStated
        /\ cba_high_pct = HighPctStated
        /\ RoundToInt(annual_cba_low) = 174112
        /\ RoundToInt(annual_cba_high) = 522336
        /\ RoundToInt(lifetime_cba_low) = 3482234
        /\ RoundToInt(lifetime_cba_high) = 10446702

\* C6, amended: capexTotal and annualProfit as stated; the two percentages
\* are the floats just below the stated decimals; the dollar figures are
\* 174,115 / 522,346 a year and 3,482,308 / 10,446,923 over the lifetime.
C6_ScenarioComputed ==
    Scenario =>
        /\ capex_total = 550000000
        /\ interest_rate_pct = Lit(725, 100)
        /\ annual_profit = FromInt(52662500)
        /\ NextUp(cba_low_pct) = LowPctStated
        /\ NextUp(cba_high_pct) = HighPctStated
        /\ RoundToInt(annual_cba_low) = 174115
        /\ RoundToInt(annual_cba_high) = 522346
        /\ RoundToInt(lifetime_cba_low) = 3482308
        /\ RoundToInt(lifetime_cba_high) = 10446923

C6_Witness == Scenario /\ revisited /\ capex_total = 550000000

\* The multiplier the claim names for a factor f, flag by flag.
Compounded(f, both) ==
    IF widgets.ej_flag /\ widgets.urban_flag THEN both
    ELSE IF widgets.ej_flag \/ widgets.urban_flag THEN f
    ELSE One

\* C7, as stated: the multiplier is 1.0 / 1.5 / 1.5 / 2.25 in v0.2 and
\* 1.0 / 1.15 / 1.15 / 1.3225 in v0.3 for none / EJ / Urban / both, and it
\* is applied to both band bounds.
C7_MultiplierAsStated ==
    /\ pct_multiplier = IF version = V03 THEN Compounded(Dec115, Dec13225)
                        ELSE Compounded(Dec150, Dec225)
    /\ cba_low_pct = FMul(IF version = V03 THEN Lit(25, 10000) ELSE Lit(4, 1000),
                          pct_multiplier)
    /\ cba_high_pct = FMul(IF version = V03 THEN Lit(75, 10000) ELSE Lit(14, 1000),
                           pct_multiplier)

\* C7, amended: with both flags on the multiplier is the float product of
\* the two factors, 2.25 in v0.2 and 1.15 * 1.15 = 1.3224999999999998 in
\* v0.3, the float just below 1.3225; the rest as stated.
C7_MultiplierCompounds ==
    /\ pct_multiplier = IF version = V03 THEN Compounded(Dec115, FMul(Dec115, Dec115))
                        ELSE Compounded(Dec150, Dec225)
    /\ version = V03 /\ widgets.ej_flag /\ widgets.urban_flag =>
           NextUp(pct_multiplier) = Dec13225
    /\ cba_low_pct = FMul(IF version = V03 THEN Lit(25, 10000) ELSE Lit(4, 1000),
                          pct_multiplier)
    /\ cba_high_pct = FMul(IF version = V03 THEN Lit(75, 10000) ELSE Lit(14, 1000),
                           pct_multiplier)

C7_Witness ==
    /\ version = V03
    /\ revisited
    /\ widgets.ej_flag
    /\ widgets.urban_flag
    /\ pct_multiplier # Dec13225
    /\ pct_multiplier # FAdd(Dec115, FSub(Dec115, One))

\* C8: in v0.3, as the checkboxes' help texts say, each adder that is on
\* multiplies the CBA percentage band by 1.5.
C8_HelpTextFactor ==
    version = V03 =>
        /\ pct_multiplier = Compounded(Dec150, Dec225)
        /\ cba_low_pct = FMul(Lit(25, 10000), Compounded(Dec150, Dec225))
        /\ cba_high_pct = FMul(Lit(75, 10000), Compounded(Dec150, Dec225))

\* C9: the same inputs give the same results whatever was evaluated in
\* between: whenever the widgets are back at the values of the first run,
\* the results are those of the first run.
C9_SameInputsSameResults ==
    widgets = DefaultWidgets(version) => Results = first_run

C9_Witness ==
    /\ revisited
    /\ widgets = DefaultWidgets(version)
    /\ Results = first_run

\* A step in total-CAPEX mode that changes the size widget and nothing
\* else.
SizeOnlyChanged ==
    /\ widgets.input_mode = Direct
    /\ widgets'.size_mw # widgets.size_mw
    /\ widgets' = [widgets EXCEPT !.size_mw = widgets'.size_mw]

\* C10: in total-CAPEX mode sizeMW and the derived capexPerKW are display
\* only, so two evaluations that differ in sizeMW alone give the same
\* results; and the divisor sizeMW * 1000 is never zero.
C10_SizeIsDisplayOnly ==
    /\ [](size_mw * 1000 > 0)
    /\ [][SizeOnlyChanged => Results' = Results /\ capex_kw' # capex_kw]_vars

C10_Witness ==
    /\ widgets.input_mode = Direct
    /\ size_mw = 990
    /\ capex_kw = FDivInt(FromInt(capex_total), 990000)
    /\ revisited


=============================================================================
